---- MODULE Spec2Model ----
(***************************************************************************)
(* Model of src/src/index.py: the lambda handler of the validation server  *)
(* engine, with the functions it calls (get_secret, load_metadata,         *)
(* get_reader, run_transformation_query, generate_transformation_metadata, *)
(* run_analysis_query, get_epsilon_per_column, parse_payload, parse_error, *)
(* post_payload).                                                          *)
(*                                                                         *)
(* One handling of one event is one behaviour.  pc is the handler's        *)
(* position; every statement that calls out of the process (S3, Secrets    *)
(* Manager, postgres, SmartNoise, HTTP) is one action whose outcome is     *)
(* chosen nondeterministically among "returns" and "raises".               *)
(*                                                                         *)
(* Requests are well-formed (section 3 of the specification): every key    *)
(* of the event is present and epsilon is numeric, so that the reads of    *)
(* the event and float(event["epsilon"]) do not raise.                     *)
(***************************************************************************)
EXTENDS Integers, Sequences, FiniteSets, TLC

VARIABLES
    event,                  \* the request, immutable during the handling
    pc,                     \* position of the handler
    bound,                  \* names of handler's local variables that are bound
    metadata,               \* local metadata
    credentials,            \* local credentials ("None" when get_secret fell through)
    confidential_query,     \* local confidential_query
    transformation_query,   \* local transformation_query
    debug,                  \* local debug
    payload,                \* local payload
    exc,                    \* last exception raised inside the try block
    raised,                 \* exception that left handler
    table,                  \* run_transformation_query's local table
    dbCommitted,            \* committed state of the table in postgres
    tx,                     \* open transaction of run_transformation_query
    commits,                \* number of connection.commit() calls issued
    multiplier,             \* get_epsilon_per_column's multiplier
    epsilon_per_column,     \* run_analysis_query's epsilon_per_column
    privacy,                \* epsilon values handed to Privacy / PrivateReader
    executions,             \* calls of execute_with_accuracy_df
    posts,                  \* calls of requests.post: <<url, payload, outcome>>
    calls                   \* log of the calls the handler made, in order

vars == <<event, pc, bound, metadata, credentials, confidential_query,
          transformation_query, debug, payload, exc, raised, table,
          dbCommitted, tx, commits, multiplier, epsilon_per_column, privacy,
          executions, posts, calls>>

\* ------------------------------------------------------------------ bounds

\* Largest |epsilon| a request carries; epsilon ranges over -MaxEpsilon..MaxEpsilon.
MaxEpsilon == 1

\* Largest number of column costs the privacy-cost probe reports.
MaxM == 2

\* Largest number of columns of a profiled table (SpecProfiler).
MaxCols == 2

\* ------------------------------------------------------------------ data

\* cardinality_cutoff of generate_transformation_metadata
cardinality_cutoff == 100

TableRef == "puf.puf_demo"

\* A query is modelled by the sequence of substrings of its text that match
\* puf\.puf_\S+, in the order they occur.
QueryWithTable == <<TableRef>>
QueryWithoutTable == << >>

\* transformation_query: None, or a query.
NoneQuery == [none |-> TRUE, text |-> << >>]
SomeQuery(q) == [none |-> FALSE, text |-> q]
TransformationQueries ==
    {NoneQuery, SomeQuery(QueryWithTable), SomeQuery(QueryWithoutTable)}

Epsilons == (0 - MaxEpsilon)..MaxEpsilon

Events ==
    [ analysis_query : {QueryWithTable},
      transformation_query : TransformationQueries,
      command_id : {"c1"},
      run_id : {"r1"},
      researcher_id : {"u1"},
      epsilon : Epsilons,
      confidential_query : BOOLEAN,
      debug : BOOLEAN ]

\* Columns of a postgres table as information_schema and the aggregate
\* query report them.
ColumnNames == {"recid", "age", "string"}
DataTypes == {"integer", "numeric", "boolean", "text"}
DistinctCounts == {cardinality_cutoff - 1, cardinality_cutoff}

Columns ==
    { [column_name |-> n, data_type |-> t, min |-> 1, max |-> d,
       ndistinct |-> d, count |-> d + 1] :
         n \in ColumnNames, t \in DataTypes, d \in DistinctCounts }

DistinctNames(cols) ==
    \A i, j \in 1..Len(cols) : i # j => cols[i].column_name # cols[j].column_name

TablesUpTo(n) ==
    { cols \in UNION { [1..k -> Columns] : k \in 0..n } : DistinctNames(cols) }

\* Tables of the profiler's specification, and the smaller set (no column or
\* one) the handler's specification draws from.
ProfilerTables == TablesUpTo(MaxCols)
HandlerTables == { << >> } \cup { <<c>> : c \in Columns }

NoTable == [exists |-> FALSE, cols |-> << >>]
SomeTable(cols) == [exists |-> TRUE, cols |-> cols]

NoExc == [type |-> "none", at |-> "none"]
Exc(type, at) == [type |-> type, at |-> at]

NoTx == [open |-> FALSE, view |-> NoTable, dropped |-> FALSE, created |-> FALSE]

\* A float as numerator and denominator.
Float(x) == [num |-> x, den |-> 1]
NoFloat == [num |-> 0, den |-> 0]

Unbound == [kind |-> "unbound"]

\* ------------------------------------------------------------ pure functions

\* get_table_name: re.search(...).group(0) is the first match; with no match
\* re.search returns None and .group raises AttributeError.
get_table_name(query) ==
    IF Len(query) = 0
      THEN [ok |-> FALSE, error |-> "AttributeError", value |-> ""]
      ELSE [ok |-> TRUE, error |-> "none", value |-> query[1]]

\* schema.replace("puf.", "")
StripSchema(schema) == IF schema = "puf.puf_demo" THEN "puf_demo" ELSE schema

NativeInt == {"smallint", "integer", "bigint"}
NativeFloat == {"decimal", "numeric", "real", "double precision"}
NativeBoolean == {"boolean"}

\* The key and the type the first loop stores for a column.  In the else
\* branch the code assigns key = "string" and leaves key_type as it was.
KeyOf(col) ==
    IF col.data_type \in NativeInt \cup NativeFloat \cup NativeBoolean
      THEN col.column_name
      ELSE "string"

TypeOf(col) ==
    IF col.data_type \in NativeInt THEN "int"
    ELSE IF col.data_type \in NativeFloat THEN "float"
    ELSE IF col.data_type \in NativeBoolean THEN "boolean"
    ELSE col.data_type

InSeq(s, x) == \E i \in 1..Len(s) : s[i] = x

\* The first loop: puf as its keys in insertion order and the type per key.
RECURSIVE ScanColumns(_, _)
ScanColumns(cols, puf) ==
    IF cols = << >> THEN puf
    ELSE LET col == Head(cols)
             key == KeyOf(col)
         IN  ScanColumns(Tail(cols),
               [ keys |-> IF InSeq(puf.keys, key) THEN puf.keys
                          ELSE Append(puf.keys, key),
                 type |-> [k \in DOMAIN puf.type \cup {key} |->
                             IF k = key THEN TypeOf(col) ELSE puf.type[k]] ])

EmptyPuf == [keys |-> << >>, type |-> [k \in {} |-> ""]]

HasColumn(cols, key) == \E i \in 1..Len(cols) : cols[i].column_name = key
ColumnNamed(cols, key) ==
    cols[CHOOSE i \in 1..Len(cols) : cols[i].column_name = key]

\* One pass of the second loop: the entry of key after the aggregate query
\* min(key), max(key), count(distinct(key)), count(key).
ColumnEntry(type, stats) ==
    IF stats.ndistinct < cardinality_cutoff
      THEN [type |-> type, lower |-> stats.min, upper |-> stats.max,
            cardinality |-> stats.ndistinct]
      ELSE [type |-> type, lower |-> stats.min, upper |-> stats.max]

\* puf["recid"] = {"type": "int", "private_id": True}
RecidEntry == [type |-> "int", private_id |-> TRUE]

\* generate_transformation_metadata on the columns the table has (none when
\* the table does not exist).  The aggregate query on a key that is no
\* column of the table raises; with no key at all, count is unbound at
\* puf["rows"] = count.  The columns of puf are kept apart from its
\* censor_dims and rows entries.
generate_transformation_metadata(analysis_query, db) ==
    LET name == get_table_name(analysis_query)
        cols == IF db.exists THEN db.cols ELSE << >>
        puf == ScanColumns(cols, EmptyPuf)
        keys == puf.keys
        last == keys[Len(keys)]
    IN  IF ~name.ok
          THEN [ok |-> FALSE, error |-> name.error, value |-> Unbound]
        ELSE IF \E i \in 1..Len(keys) : ~HasColumn(cols, keys[i])
          THEN [ok |-> FALSE, error |-> "UndefinedColumn", value |-> Unbound]
        ELSE IF Len(keys) = 0
          THEN [ok |-> FALSE, error |-> "UnboundLocalError", value |-> Unbound]
        ELSE [ok |-> TRUE, error |-> "none",
              value |->
                [ kind |-> "generated",
                  table |-> StripSchema(name.value),
                  columns |->
                    [k \in DOMAIN puf.type \cup {"recid"} |->
                       IF k = "recid" THEN RecidEntry
                       ELSE ColumnEntry(puf.type[k], ColumnNamed(cols, k))],
                  censor_dims |-> FALSE,
                  rows |-> ColumnNamed(cols, last).count ]]

\* load_metadata's result: the baseline snapshot puf.json.
Baseline == [kind |-> "baseline"]

\* get_epsilon_per_column: epsilon / multiplier, ZeroDivisionError when the
\* probe reported no column cost.  There is no test of epsilon.
get_epsilon_per_column(m, epsilon) ==
    IF m = 0
      THEN [ok |-> FALSE, error |-> "ZeroDivisionError", value |-> NoFloat]
      ELSE [ok |-> TRUE, error |-> "none",
            value |-> [num |-> epsilon.num, den |-> epsilon.den * m]]

\* parse_payload
parse_payload(command_id, run_id, researcher_id, epsilon) ==
    [ command_id |-> command_id, run_id |-> run_id,
      researcher_id |-> researcher_id, privacy_budget_used |-> epsilon,
      result |-> [ok |-> TRUE, body |-> "data"],
      accuracy |-> "quantiles" ]

\* A variant of parse_error that reports the failure as a success.
parse_error_ok(ev, e) ==
    [ command_id |-> ev.command_id, run_id |-> ev.run_id,
      researcher_id |-> ev.researcher_id,
      privacy_budget_used |-> Float(ev.epsilon),
      result |-> [ok |-> TRUE, body |-> e.type],
      accuracy |-> "empty" ]

\* parse_error
parse_error(ev, e) ==
    [ command_id |-> ev.command_id, run_id |-> ev.run_id,
      researcher_id |-> ev.researcher_id,
      privacy_budget_used |-> Float(ev.epsilon),
      result |-> [ok |-> FALSE, body |-> e.type],
      accuracy |-> "empty" ]

\* post_payload's url
Url(confidential) ==
    IF confidential THEN "confidential-data-result" ELSE "synthetic-data-result"

\* Variants of handler's three tests: the transformation allowed on a
\* confidential request, the metadata regenerated for every request, the
\* payload posted for every request.
NeedsTransformationAnyTier(tq, confidential) == ~tq.none
NeedsMetadataAlways(tq) == TRUE
ShouldPostAlways(dbg) == TRUE

\* handler's three tests, lines 335, 338 and 346
NeedsTransformation(tq, confidential) == ~tq.none /\ ~confidential
NeedsMetadata(tq) == ~tq.none
ShouldPost(dbg) == ~dbg

\* ------------------------------------------------------------------ handler

locals == <<bound, metadata, credentials, confidential_query,
            transformation_query, debug, payload>>
dbvars == <<table, dbCommitted, tx, commits>>
dpvars == <<multiplier, epsilon_per_column, privacy, executions>>

InitLocals ==
    /\ pc = "load_metadata"
    /\ bound = {}
    /\ metadata = Unbound
    /\ credentials = "unbound"
    /\ confidential_query = FALSE
    /\ transformation_query = NoneQuery
    /\ debug = FALSE
    /\ payload = Unbound
    /\ exc = NoExc
    /\ raised = NoExc
    /\ table = ""
    /\ tx = NoTx
    /\ commits = 0
    /\ multiplier = 0
    /\ epsilon_per_column = NoFloat
    /\ privacy = << >>
    /\ executions = 0
    /\ posts = << >>
    /\ calls = << >>

Init ==
    /\ event \in Events
    /\ dbCommitted \in {NoTable} \cup { SomeTable(t) : t \in HandlerTables }
    /\ InitLocals

\* An exception raised by the statement at pc inside the try block: control
\* goes to the except clause.
Throw(type) ==
    /\ pc' = "except"
    /\ exc' = Exc(type, pc)

\* line 328: metadata = load_metadata()
LoadMetadata ==
    /\ pc = "load_metadata"
    /\ \/ /\ metadata' = Baseline
          /\ bound' = bound \cup {"metadata"}
          /\ pc' = "get_secret"
          /\ exc' = exc
       \/ /\ Throw("ClientError")
          /\ UNCHANGED <<metadata, bound>>
    /\ calls' = Append(calls, "load_metadata")
    /\ UNCHANGED <<event, credentials, confidential_query, transformation_query,
                   debug, payload, raised, dbvars, dpvars, posts>>

\* line 329: credentials = get_secret(...).  get_secret re-raises the five
\* ClientError codes it names, and falls off its if-chain, returning None,
\* on any other ClientError code.
GetSecret ==
    /\ pc = "get_secret"
    /\ \/ /\ \E c \in {"secret", "None"} : credentials' = c
          /\ bound' = bound \cup {"credentials"}
          /\ pc' = "get_reader"
          /\ exc' = exc
       \/ /\ Throw("ClientError")
          /\ UNCHANGED <<credentials, bound>>
    /\ calls' = Append(calls, "get_secret")
    /\ UNCHANGED <<event, metadata, confidential_query, transformation_query,
                   debug, payload, raised, dbvars, dpvars, posts>>

\* line 330: reader = get_reader("puf", credentials); credentials["host"]
\* raises TypeError when credentials is None.
GetReader ==
    /\ pc = "get_reader"
    /\ IF credentials = "None"
         THEN /\ Throw("TypeError")
              /\ UNCHANGED bound
         ELSE /\ bound' = bound \cup {"reader"}
              /\ pc' = "read_event"
              /\ exc' = exc
    /\ UNCHANGED <<event, metadata, credentials, confidential_query,
                   transformation_query, debug, payload, raised, dbvars,
                   dpvars, posts, calls>>

\* lines 331-333
ReadEvent ==
    /\ pc = "read_event"
    /\ confidential_query' = event.confidential_query
    /\ transformation_query' = event.transformation_query
    /\ debug' = event.debug
    /\ bound' = bound \cup {"confidential_query", "transformation_query", "debug"}
    /\ pc' = "if_transformation"
    /\ UNCHANGED <<event, metadata, credentials, payload, exc, raised, dbvars,
                   dpvars, posts, calls>>

\* line 335
IfTransformation ==
    /\ pc = "if_transformation"
    /\ pc' = IF NeedsTransformation(transformation_query, confidential_query)
               THEN "tq_table_name" ELSE "if_metadata"
    /\ UNCHANGED <<event, locals, exc, raised, dbvars, dpvars, posts, calls>>

\* line 336, run_transformation_query line 160
TqTableName ==
    /\ pc = "tq_table_name"
    /\ LET name == get_table_name(transformation_query.text)
       IN  IF name.ok
             THEN /\ table' = name.value
                  /\ pc' = "tq_connect"
                  /\ exc' = exc
             ELSE /\ Throw(name.error)
                  /\ table' = table
    /\ calls' = Append(calls, "run_transformation_query")
    /\ UNCHANGED <<event, locals, raised, dbCommitted, tx, commits, dpvars, posts>>

\* line 166: a new connection; psycopg2 opens a transaction with the first
\* statement and commits nothing by itself.
TqConnect ==
    /\ pc = "tq_connect"
    /\ \/ /\ tx' = [open |-> TRUE, view |-> dbCommitted,
                    dropped |-> FALSE, created |-> FALSE]
          /\ pc' = "tq_drop"
          /\ exc' = exc
       \/ /\ Throw("OperationalError")
          /\ tx' = tx
    /\ UNCHANGED <<event, locals, raised, table, dbCommitted, commits, dpvars,
                   posts, calls>>

\* line 169: DROP TABLE IF EXISTS, inside the transaction.  When it raises,
\* the connection is left without commit and its transaction is rolled back.
TqDrop ==
    /\ pc = "tq_drop"
    /\ \/ /\ tx' = [tx EXCEPT !.view = NoTable, !.dropped = TRUE]
          /\ pc' = "tq_execute"
          /\ exc' = exc
       \/ /\ Throw("DatabaseError")
          /\ tx' = NoTx
    /\ UNCHANGED <<event, locals, raised, table, dbCommitted, commits, dpvars,
                   posts, calls>>

\* A variant of TqExecute for a connection in autocommit mode: the drop is
\* already permanent when the transformation query fails.
TqExecuteAutocommit ==
    /\ pc = "tq_execute"
    /\ \/ /\ \E t \in HandlerTables :
               tx' = [tx EXCEPT !.view = SomeTable(t), !.created = TRUE]
          /\ pc' = "tq_commit"
          /\ exc' = exc
          /\ dbCommitted' = dbCommitted
       \/ /\ Throw("DatabaseError")
          /\ tx' = NoTx
          /\ dbCommitted' = tx.view
    /\ UNCHANGED <<event, locals, raised, table, commits, dpvars, posts, calls>>

\* line 170: the transformation query recreates the table, inside the same
\* transaction.
TqExecute ==
    /\ pc = "tq_execute"
    /\ \/ /\ \E t \in HandlerTables :
               tx' = [tx EXCEPT !.view = SomeTable(t), !.created = TRUE]
          /\ pc' = "tq_commit"
          /\ exc' = exc
       \/ /\ Throw("DatabaseError")
          /\ tx' = NoTx
    /\ UNCHANGED <<event, locals, raised, table, dbCommitted, commits, dpvars,
                   posts, calls>>

\* line 173: connection.commit()
TqCommit ==
    /\ pc = "tq_commit"
    /\ commits' = commits + 1
    /\ \/ /\ dbCommitted' = tx.view
          /\ tx' = tx
          /\ pc' = "tq_close"
          /\ exc' = exc
       \/ /\ Throw("OperationalError")
          /\ tx' = NoTx
          /\ dbCommitted' = dbCommitted
    /\ UNCHANGED <<event, locals, raised, table, dpvars, posts, calls>>

\* line 174: connection.close(), and the return to handler
TqClose ==
    /\ pc = "tq_close"
    /\ tx' = NoTx
    /\ pc' = "if_metadata"
    /\ calls' = Append(calls, "run_transformation_query.return")
    /\ UNCHANGED <<event, locals, exc, raised, table, dbCommitted, commits,
                   dpvars, posts>>

\* line 338
IfMetadata ==
    /\ pc = "if_metadata"
    /\ pc' = IF NeedsMetadata(transformation_query)
               THEN "generate_metadata" ELSE "allocate"
    /\ UNCHANGED <<event, locals, exc, raised, dbvars, dpvars, posts, calls>>

\* line 339: metadata = generate_transformation_metadata(...), on a new
\* connection, which reads the committed table.
GenerateMetadata ==
    /\ pc = "generate_metadata"
    /\ \/ LET r == generate_transformation_metadata(transformation_query.text,
                                                    dbCommitted)
          IN  IF r.ok
                THEN /\ metadata' = r.value
                     /\ pc' = "allocate"
                     /\ exc' = exc
                     /\ calls' = calls \o <<"generate_transformation_metadata",
                                     "generate_transformation_metadata.return">>
                ELSE /\ Throw(r.error)
                     /\ metadata' = metadata
                     /\ calls' = Append(calls, "generate_transformation_metadata")
       \/ /\ get_table_name(transformation_query.text).ok
          /\ Throw("OperationalError")
          /\ metadata' = metadata
          /\ calls' = Append(calls, "generate_transformation_metadata")
    /\ UNCHANGED <<event, bound, credentials, confidential_query,
                   transformation_query, debug, payload, raised, dbvars,
                   dpvars, posts>>

\* run_analysis_query lines 257-264: epsilon = float(event["epsilon"]), then
\* get_epsilon_per_column, whose probe get_privacy_cost reports m column
\* costs or raises.
AllocateBudget ==
    /\ pc = "allocate"
    /\ \/ \E m \in 0..MaxM :
            LET r == get_epsilon_per_column(m, Float(event.epsilon))
            IN  /\ multiplier' = m
                /\ IF r.ok
                     THEN /\ epsilon_per_column' = r.value
                          /\ pc' = "privacy"
                          /\ exc' = exc
                     ELSE /\ Throw(r.error)
                          /\ epsilon_per_column' = epsilon_per_column
       \/ /\ Throw("PrivacyError")
          /\ UNCHANGED <<multiplier, epsilon_per_column>>
    /\ calls' = Append(calls, "get_privacy_cost")
    /\ UNCHANGED <<event, locals, raised, dbvars, privacy, executions, posts>>

\* lines 267-268: Privacy(epsilon=epsilon_per_column, ...) and the
\* PrivateReader built on it.  What SmartNoise does with the value it is
\* handed is not this repository's code: it returns or raises.
SetupPrivacy ==
    /\ pc = "privacy"
    /\ privacy' = Append(privacy, [epsilon |-> epsilon_per_column,
                                   multiplier |-> multiplier])
    /\ \/ /\ pc' = "execute"
          /\ exc' = exc
       \/ Throw("PrivacyError")
    /\ UNCHANGED <<event, locals, raised, dbvars, multiplier,
                   epsilon_per_column, executions, posts, calls>>

\* line 271: private_reader.execute_with_accuracy_df(analysis_query)
Execute ==
    /\ pc = "execute"
    /\ executions' = executions + 1
    /\ calls' = Append(calls, "execute_with_accuracy_df")
    /\ \/ /\ pc' = "format"
          /\ exc' = exc
       \/ Throw("PrivacyError")
    /\ UNCHANGED <<event, locals, raised, dbvars, multiplier,
                   epsilon_per_column, privacy, posts>>

\* lines 272-274 and the assignment of line 341; np.quantile raises on an
\* accuracy frame left empty by dropna.
FormatPayload ==
    /\ pc = "format"
    /\ \/ /\ payload' = parse_payload(event.command_id, event.run_id,
                          event.researcher_id, Float(event.epsilon))
          /\ bound' = bound \cup {"payload"}
          /\ pc' = "finally"
          /\ exc' = exc
       \/ /\ Throw("ValueError")
          /\ UNCHANGED <<payload, bound>>
    /\ UNCHANGED <<event, metadata, credentials, confidential_query,
                   transformation_query, debug, raised, dbvars, dpvars, posts,
                   calls>>

\* A variant of Except that runs the analysis again before giving up.
ExceptRetry ==
    /\ pc = "except"
    /\ pc' = IF exc.at = "execute" /\ executions < 2 THEN "execute" ELSE "finally"
    /\ payload' = parse_error(event, exc)
    /\ bound' = bound \cup {"payload"}
    /\ UNCHANGED <<event, metadata, credentials, confidential_query,
                   transformation_query, debug, exc, raised, dbvars, dpvars,
                   posts, calls>>

\* lines 342-343: except Exception as e: payload = parse_error(event, e)
Except ==
    /\ pc = "except"
    /\ payload' = parse_error(event, exc)
    /\ bound' = bound \cup {"payload"}
    /\ pc' = "finally"
    /\ UNCHANGED <<event, metadata, credentials, confidential_query,
                   transformation_query, debug, exc, raised, dbvars, dpvars,
                   posts, calls>>

\* line 346: if not debug.  debug is a local of handler, bound at line 333:
\* when the try block raised before that line, reading it raises
\* UnboundLocalError, out of the finally clause and out of handler.
Finally ==
    /\ pc = "finally"
    /\ IF "debug" \notin bound
         THEN /\ raised' = Exc("UnboundLocalError", pc)
              /\ pc' = "raised"
         ELSE /\ raised' = raised
              /\ pc' = IF ShouldPost(debug) THEN "post" ELSE "print"
    /\ UNCHANGED <<event, locals, exc, dbvars, dpvars, posts, calls>>

\* lines 347-349: post_payload, one requests.post.  It returns a response
\* (whatever its status) or raises; nothing around it catches.  payload,
\* credentials and confidential_query are bound whenever debug is.
PostPayload ==
    /\ pc = "post"
    /\ calls' = Append(calls, "post_payload")
    /\ \/ /\ \E status \in {"ok", "unauthorized"} :
               posts' = Append(posts, [url |-> Url(confidential_query),
                                       payload |-> payload, outcome |-> status])
          /\ pc' = "print"
          /\ raised' = raised
       \/ /\ posts' = Append(posts, [url |-> Url(confidential_query),
                                     payload |-> payload, outcome |-> "raised"])
          /\ raised' = Exc("ConnectionError", pc)
          /\ pc' = "raised"
    /\ UNCHANGED <<event, locals, exc, dbvars, dpvars>>

\* line 350: print(payload), and handler returns
PrintPayload ==
    /\ pc = "print"
    /\ pc' = "done"
    /\ UNCHANGED <<event, locals, exc, raised, dbvars, dpvars, posts, calls>>

Next ==
    \/ LoadMetadata
    \/ GetSecret
    \/ GetReader
    \/ ReadEvent
    \/ IfTransformation
    \/ TqTableName
    \/ TqConnect
    \/ TqDrop
    \/ TqExecute
    \/ TqCommit
    \/ TqClose
    \/ IfMetadata
    \/ GenerateMetadata
    \/ AllocateBudget
    \/ SetupPrivacy
    \/ Execute
    \/ FormatPayload
    \/ Except
    \/ Finally
    \/ PostPayload
    \/ PrintPayload

Spec == Init /\ [][Next]_vars

\* ----------------------------------------------------------------- profiler

\* generate_transformation_metadata alone, on every table of up to MaxCols
\* columns: handler stands at line 339 with a transformation query.
InitProfiler ==
    /\ event \in { e \in Events :
                     /\ e.transformation_query = SomeQuery(QueryWithTable)
                     /\ e.epsilon = MaxEpsilon
                     /\ e.debug }
    /\ dbCommitted \in {NoTable} \cup { SomeTable(t) : t \in ProfilerTables }
    /\ pc = "generate_metadata"
    /\ bound = {"metadata", "credentials", "reader", "confidential_query",
                "transformation_query", "debug"}
    /\ metadata = Baseline
    /\ credentials = "secret"
    /\ confidential_query = event.confidential_query
    /\ transformation_query = event.transformation_query
    /\ debug = event.debug
    /\ payload = Unbound
    /\ exc = NoExc
    /\ raised = NoExc
    /\ table = ""
    /\ tx = NoTx
    /\ commits = 0
    /\ multiplier = 0
    /\ epsilon_per_column = NoFloat
    /\ privacy = << >>
    /\ executions = 0
    /\ posts = << >>
    /\ calls = << >>

NextProfiler == GenerateMetadata

SpecProfiler == InitProfiler /\ [][NextProfiler]_vars

\* ------------------------------------------------------------------- claims

Terminated == pc \in {"done", "raised"}
AfterTry == pc \in {"finally", "post", "print", "done", "raised"}
TryPositions ==
    {"load_metadata", "get_secret", "get_reader", "tq_table_name",
     "tq_connect", "tq_drop", "tq_execute", "tq_commit", "generate_metadata",
     "allocate", "privacy", "execute", "format"}

Called(name) == InSeq(calls, name)

\* Every occurrence of b in the log is preceded by an occurrence of a.
Before(a, b) ==
    \A j \in 1..Len(calls) :
        calls[j] = b => \E i \in 1..(j - 1) : calls[i] = a

\* C1: an exception raised at any step of the try block (secret retrieval,
\* metadata load, transformation, metadata regeneration, budget allocation,
\* private execution) is caught in handler and becomes a payload with
\* result.ok = false that carries the exception's text; the exception that
\* leaves handler, if any, is never one raised by those steps.
C1_FailureBecomesPayload ==
    /\ (exc # NoExc /\ AfterTry) =>
          /\ "payload" \in bound
          /\ payload.result.ok = FALSE
          /\ payload.result.body = exc.type
          /\ payload.privacy_budget_used = Float(event.epsilon)
    /\ raised.at \notin TryPositions
    /\ exc # NoExc => exc.at \in TryPositions

C1_Witness ==
    /\ pc = "done"
    /\ exc.at = "execute"
    /\ payload.result.ok = FALSE

\* C2: a request with debug = false never ends without a call of
\* post_payload, on any path of handler.
C2_NonDebugAlwaysDelivers ==
    (Terminated /\ ~event.debug) => Len(posts) >= 1

\* C3: a request with debug = true never calls post_payload, whether the
\* try block succeeds or fails.
C3_DebugNeverDelivers ==
    event.debug => (posts = << >> /\ ~Called("post_payload") /\ pc # "post")

C3_Witness ==
    /\ event.debug
    /\ pc = "done"
    /\ exc.at = "execute"

\* C4: when the delivery attempt raises, handler does not re-raise: the
\* handling ends normally, and delivery is attempted at most once.
C4_DeliveryFailureSwallowed ==
    /\ Len(posts) <= 1
    /\ (posts # << >> /\ posts[Len(posts)].outcome = "raised") =>
          (raised = NoExc /\ pc \in {"print", "done"})

\* C5: with transformation_query null neither run_transformation_query nor
\* generate_transformation_metadata is called; with a transformation query
\* on a non-confidential request run_transformation_query returns before
\* generate_transformation_metadata is called, which returns before the
\* budget probe and the private execution.
C5_StepOrder ==
    /\ event.transformation_query.none =>
          /\ ~Called("run_transformation_query")
          /\ ~Called("generate_transformation_metadata")
    /\ (~event.transformation_query.none /\ ~event.confidential_query) =>
          /\ Before("run_transformation_query.return",
                    "generate_transformation_metadata")
          /\ Before("generate_transformation_metadata.return", "get_privacy_cost")
          /\ Before("generate_transformation_metadata.return",
                    "execute_with_accuracy_df")

C5_Witness ==
    /\ ~event.transformation_query.none
    /\ ~event.confidential_query
    /\ Called("execute_with_accuracy_df")
    /\ pc = "done"

\* C6: a confidential request never runs run_transformation_query (no
\* statement, no commit, the table as it was); and whenever
\* transformation_query is non-null, confidential or not, the analysis runs
\* on metadata regenerated for the table the transformation query names,
\* not on the baseline snapshot.
C6_ConfidentialNeverTransforms ==
    /\ event.confidential_query =>
          /\ ~Called("run_transformation_query")
          /\ tx = NoTx
          /\ commits = 0
    /\ (~event.transformation_query.none
          /\ pc \in {"allocate", "privacy", "execute", "format"}) =>
          LET name == get_table_name(event.transformation_query.text)
          IN  /\ name.ok
              /\ metadata.kind = "generated"
              /\ metadata.table = StripSchema(name.value)

C6_Witness ==
    /\ event.confidential_query
    /\ ~event.transformation_query.none
    /\ pc = "execute"
    /\ metadata.kind = "generated"

\* C7: execute_with_accuracy_df is called at most once in a handling, and
\* never again once an exception has been raised in the try block.
C7_ExecuteAtMostOnce ==
    [][ /\ executions' <= 1
        /\ exc # NoExc => executions' = executions ]_vars

C7_Witness ==
    /\ executions = 1
    /\ exc.at = "execute"
    /\ pc = "done"

\* C8: budget allocation fails when the probe reports no column cost and
\* when epsilon <= 0, so every epsilon_per_column handed to the private
\* executor is > 0 and was derived with a multiplier >= 1.
C8_BudgetGuard ==
    /\ pc \in {"privacy", "execute", "format"} =>
          (multiplier >= 1 /\ event.epsilon > 0)
    /\ \A i \in 1..Len(privacy) :
          /\ privacy[i].multiplier >= 1
          /\ privacy[i].epsilon.num > 0
          /\ privacy[i].epsilon.den > 0

\* C9: in the metadata generate_transformation_metadata returns, every
\* column of the profiled table has an entry that carries cardinality if
\* and only if the column's distinct count is below the cutoff.
HasCardinality(md, name) ==
    /\ name \in DOMAIN md.columns
    /\ "cardinality" \in DOMAIN md.columns[name]

C9_CardinalityIffBelowCutoff ==
    metadata.kind = "generated" =>
        \A i \in 1..Len(dbCommitted.cols) :
            LET col == dbCommitted.cols[i]
            IN  HasCardinality(metadata, col.column_name)
                  <=> (col.ndistinct < cardinality_cutoff)

\* C10: the drop and the recreate are one transaction: a commit is issued
\* only after both statements succeeded, the committed table changes only
\* by that commit, and a table that exists in the committed state is never
\* missing from it afterwards.
C10_CommitAfterBoth ==
    [][ /\ commits' # commits =>
              (tx.open /\ tx.dropped /\ tx.created /\ commits' = commits + 1)
        /\ dbCommitted' # dbCommitted => commits' = commits + 1
        /\ dbCommitted.exists => dbCommitted'.exists ]_vars

C10_Witness ==
    /\ exc.at = "tq_execute"
    /\ commits = 0
    /\ dbCommitted.exists
    /\ tx = NoTx

====
